---- MODULE Spec2Model ----
(***************************************************************************)
(* GoFlow: the scheduler/worker loop over the jobs table.                  *)
(*                                                                         *)
(* The state is the jobs table (one row per job), every worker             *)
(* goroutine's position in startWorker/processJob/handleRetry/             *)
(* triggerAutoCallback together with its local variables, the recovery     *)
(* loop, and main's position.  Every store statement of the source is one  *)
(* atomic step; a statement whose error the source checks may fail.        *)
(*                                                                         *)
(* Time.  Every timestamp (run_at, updated_at, processJob's start, the     *)
(* ticker's next tick) is kept in seconds relative to the current          *)
(* instant, so NOW() is 0, a past instant is negative and a future one     *)
(* positive; the source's comparisons and assignments read as written      *)
(* (updated_at < NOW() - 30, run_at = NOW() + delay).  When the clock      *)
(* advances, every timestamp moves back by the same amount.  The source    *)
(* reads a timestamp only against NOW(): a run_at that has passed is kept  *)
(* as NOW(); the updated_at of a row in processing (its lease) is kept as  *)
(* NOW() - Horizon once it is further back than that; the updated_at of    *)
(* any other row, which the source overwrites before it reads it, is kept  *)
(* as "earlier than now"; a timer start is kept as NOW() - MaxDuration.    *)
(* The clock advances in steps of baseDelay, the smallest duration of the  *)
(* source: every other duration of the source (the ticker period,          *)
(* processingTimeout, the backoff delays) is a multiple of it.  No store   *)
(* call of the source carries a deadline and not every handler has one     *)
(* (smtp.SendMail), so the clock may advance at any position of a worker   *)
(* and of the recovery loop.  The loop's ticker fires every sweepInterval  *)
(* whatever the loop does; its channel holds one tick, and a tick that     *)
(* finds one waiting there is dropped.                                     *)
(***************************************************************************)
EXTENDS Integers, Sequences, FiniteSets, TLC

\* ------------------------------------------------------------- bounds
NumWorkers == 2
MaxJobs == 1
Horizon == 50
MaxDuration == 5
MaxStoreErrors == 1
MaxCalls == 4
MaxPosts == 2
MaxRows == 5
MaxCronSteps == 2

\* ------------------------------------------------- program constants
maxRetries == 3
baseDelay == 5
processingTimeout == 30
sweepInterval == 15

Quantum == baseDelay

\* NOW(), time.Now(): the origin of every timestamp.
NOW == 0

NULL == "NULL"
NULLINT == 0 - 1

Workers == 1..NumWorkers

VARIABLES
    jobs,         \* the jobs table: a sequence of rows, the id is the index
    pc,           \* pc[w]: worker w's position
    id,           \* id[w]: the id the claim returned to worker w (0: none)
    start,        \* start[w]: processJob's start
    res,          \* res[w]: what jobs.Execute returned to processJob
    duration,     \* duration[w]: processJob's duration
    retryCount,   \* retryCount[w]: handleRetry's retryCount
    status,       \* status[w]: the status triggerAutoCallback read
    nextRun,      \* nextRun[w]: executeCronSchedule's nextRun
    ins,          \* ins[w]: the INSERTs the handler w runs has executed
    spc,          \* the recovery loop's position
    nextTick,     \* when the recovery loop's ticker fires next
    tickReady,    \* whether a tick waits in ticker.C
    mpc,          \* main's position
    storeErrs,    \* store errors so far
    log           \* log[j], what job j has made happen outside the table:
                  \*   calls: how often a handler was invoked for it,
                  \*   posts: how many callback POSTs were sent for it,
                  \*   statuses: the statuses those POSTs carried,
                  \*   delays: the (retryCount read, nextDelay) of each
                  \*           reschedule handleRetry issued for it,
                  \*   body: the responseBody last handed to the store for it,
                  \*   age: for how long its current attempt has been
                  \*        running, where attempts are timed (SpecBounded),
                  \*   orphan: whether processJob returned at its fetch error
                  \*           for the last claim of it

vars == <<jobs, pc, id, start, res, duration, retryCount, status, nextRun,
          ins, spc, nextTick, tickReady, mpc, storeErrs, log>>

\* The locals of the callees of startWorker's loop.
locals == <<start, res, duration, retryCount, status, nextRun, ins>>

wvars == <<pc, id, locals>>

\* ------------------------------------------------------------ handlers
\* What a handler can return: (statusCode, responseBody, error).
\* executeHTTPRequest returns before any answer (no url in the payload, a
\* body that does not marshal, a request that cannot be built or sent), or
\* with the peer's answer, whose body is JSON, other bytes or empty.
executeHTTPRequest ==
    { [code |-> 0, body |-> "nil", err |-> "request error"] }
    \cup { [code |-> 200, body |-> b, err |-> NULL] :
              b \in {"json", "text", "empty"} }
    \cup { [code |-> 500, body |-> b, err |-> "http status 500"] :
              b \in {"json", "text", "empty"} }

\* executeSendEmail returns at a field missing from the payload, at the
\* error of smtp.SendMail, or after the mail is sent.
executeSendEmail ==
    { [code |-> 0,   body |-> "nil",  err |-> "missing field"],
      [code |-> 500, body |-> "nil",  err |-> "smtp error"],
      [code |-> 200, body |-> "json", err |-> NULL] }

\* executeWebhookDelivery and executeDataExtract answer like an HTTP request.
executeWebhookDelivery == executeHTTPRequest

executeDataExtract ==
    { [code |-> 0,   body |-> "nil",  err |-> "request error"],
      [code |-> 500, body |-> "nil",  err |-> "http status 500"],
      [code |-> 200, body |-> "json", err |-> NULL] }

NoPayload == [none |-> TRUE]

\* The payload of a row: the part of it that a scheduling handler reads.
PayloadOf(row) == IF "payload" \in DOMAIN row THEN row.payload ELSE NoPayload

\* The type assertions of executeDelay and of executeCronSchedule.
ValidPayload(jobType, payload) ==
    CASE jobType = "delay" -> {"seconds", "next_job"} \subseteq DOMAIN payload
      [] jobType = "cron_schedule" -> {"cron", "job"} \subseteq DOMAIN payload
      [] OTHER -> TRUE

\* What executeDelay and executeCronSchedule return when no INSERT of theirs
\* fails: an error at a payload that fails a type assertion, and 200 once
\* their INSERTs are done; the rows they insert are given by Inserts below.
Scheduled(jobType, payload) ==
    IF ValidPayload(jobType, payload)
    THEN { [code |-> 200, body |-> "json", err |-> NULL] }
    ELSE { [code |-> 0, body |-> "nil", err |-> "invalid payload"] }

Execute(jobType, payload) ==
    CASE jobType = "http_request"     -> executeHTTPRequest
      [] jobType = "send_email"       -> executeSendEmail
      [] jobType = "webhook_delivery" -> executeWebhookDelivery
      [] jobType = "delay"            -> Scheduled(jobType, payload)
      [] jobType = "cron_schedule"    -> Scheduled(jobType, payload)
      [] jobType = "data_extract"     -> executeDataExtract
      [] OTHER -> { [code |-> 0, body |-> "nil", err |-> "unknown job type"] }

\* processJob's check of responseBody: bytes that are no JSON are wrapped.
WrapBody(body) == IF body = "text" THEN "wrapped" ELSE body

\* response_body is JSONB and responseBody a []byte, which the driver sends
\* as the bytes it holds: a nil slice, like an empty one, as no bytes at all.
\* The store executes the statement when the bytes parse as JSON and rejects
\* it otherwise.
StoreAccepts(body) == body \in {"json", "wrapped"}

\* processJob's responseBody and duration before jobs.Execute has returned.
NoResult == [code |-> 0, body |-> "none", err |-> NULL]

\* ---------------------------------------------------------- the store
\* A row as jobsHandler inserts it.  cb: the payload holds a non-empty
\* callback_url; cbValid: http.NewRequest accepts that url.
NewRow(type, cb, runAt) ==
    [ type |-> type, cb |-> cb, cbValid |-> TRUE, status |-> "pending",
      retry_count |-> 0, run_at |-> runAt, updated_at |-> NOW,
      last_error |-> NULL, response_status |-> NULLINT,
      response_body |-> NULL, execution_time_ms |-> NULLINT ]

\* A row together with the part of its payload that a scheduling handler
\* reads.
NewJob(type, cb, runAt, payload) ==
    NewRow(type, cb, runAt) @@ [payload |-> payload]

\* The row an INSERT adds for a job definition (next_job, job): its type and
\* its payload, which is stored whole, with its callback_url and with the
\* fields a scheduling handler reads.
JobRow(def, at) ==
    [NewJob(def.type, def.cb, at, PayloadOf(def))
        EXCEPT !.cbValid = IF "cbValid" \in DOMAIN def
                           THEN def.cbValid ELSE TRUE]

\* executeDelay's INSERT, with run_at now.
executeDelay_now(payload) ==
    << JobRow(payload.next_job, NOW) >>

\* executeDelay's INSERT: next_job, pending, run_at = NOW() + seconds.
executeDelay(payload) ==
    << JobRow(payload.next_job, NOW + payload.seconds) >>

\* executeCronSchedule's two INSERTs, both at nextRun: the job of the
\* payload, and a cron_schedule job with the whole payload of the row the
\* handler runs for, its callback_url included.
executeCronSchedule(row, at) ==
    << JobRow(row.payload.job, at),
       [NewJob("cron_schedule", row.cb, at, row.payload)
           EXCEPT !.cbValid = row.cbValid] >>

\* The rows the handler of a row inserts, in the order of its INSERTs.
Inserts(row, at) ==
    CASE row.type = "delay" /\ ValidPayload(row.type, PayloadOf(row))
            -> executeDelay(row.payload)
      [] row.type = "cron_schedule" /\ ValidPayload(row.type, PayloadOf(row))
            -> executeCronSchedule(row, at)
      [] OTHER -> << >>

\* A cron expression that parses and has no occurrence (0 0 30 2 *); any
\* other expression of the model is given by the period of its occurrences.
Never == 0

\* schedule.Next(now): the next occurrence, later than now; for an
\* expression without occurrence the zero time, an instant that has passed.
NextRuns(row) ==
    IF row.type = "cron_schedule" /\ ValidPayload(row.type, PayloadOf(row))
    THEN IF row.payload.cron = Never
         THEN { NOW }
         ELSE { NOW + k * row.payload.cron : k \in 1..MaxCronSteps }
    ELSE { NOW }

Ids(tbl) == 1..Len(tbl)

\* The claim's inner SELECT without its condition on run_at.
Ready_early(tbl) ==
    { j \in Ids(tbl) : /\ tbl[j].status = "pending"
                       /\ tbl[j].retry_count < maxRetries }

\* The claim's inner SELECT: the pending rows that may run.
Ready(tbl) ==
    { j \in Ids(tbl) : /\ tbl[j].status = "pending"
                       /\ tbl[j].retry_count < maxRetries
                       /\ tbl[j].run_at <= NOW }

\* ORDER BY id DESC LIMIT 1
MaxOf(S) == CHOOSE x \in S : \A y \in S : x >= y

\* ORDER BY id LIMIT 1
MinOf(S) == CHOOSE x \in S : \A y \in S : x <= y

\* recoverStuckJobs counting the reclaim as an attempt.
recoverStuckJobs_counting(tbl) ==
    [ j \in Ids(tbl) |->
        IF tbl[j].status = "processing"
           /\ tbl[j].updated_at < NOW - processingTimeout
        THEN [tbl[j] EXCEPT !.status = "pending", !.updated_at = NOW,
                            !.retry_count = @ + 1]
        ELSE tbl[j] ]

\* recoverStuckJobs with an interval shorter by two steps of the clock.
recoverStuckJobs_short(tbl) ==
    [ j \in Ids(tbl) |->
        IF tbl[j].status = "processing"
           /\ tbl[j].updated_at < NOW - (processingTimeout - 2 * Quantum)
        THEN [tbl[j] EXCEPT !.status = "pending", !.updated_at = NOW]
        ELSE tbl[j] ]

\* recoverStuckJobs' UPDATE.
recoverStuckJobs(tbl) ==
    [ j \in Ids(tbl) |->
        IF tbl[j].status = "processing"
           /\ tbl[j].updated_at < NOW - processingTimeout
        THEN [tbl[j] EXCEPT !.status = "pending", !.updated_at = NOW]
        ELSE tbl[j] ]

\* 1 << n
Shl1(n) == 2 ^ n

\* nextDelay shifted by one attempt.
nextDelay_shifted(rc) == baseDelay * Shl1(rc + 1)

\* handleRetry: nextDelay, in seconds.
nextDelay(rc) == baseDelay * Shl1(rc)

\* ---------------------------------------------------------------- clock
Max(a, b) == IF a >= b THEN a ELSE b

\* A timestamp after the clock has advanced by Quantum.
Later(t, floor) == Max(t - Quantum, floor)

\* How far back the updated_at of a row is told apart.
LeaseFloor(row) ==
    IF row.status = "processing" THEN NOW - Horizon ELSE NOW - Quantum

Elapse(tbl) ==
    [ j \in Ids(tbl) |->
        [tbl[j] EXCEPT !.run_at = Later(@, NOW),
                       !.updated_at = Later(@, LeaseFloor(tbl[j]))] ]

\* A count of the log, which is kept up to a cap.
Bump(n, cap) == IF n < cap THEN n + 1 ELSE n

\* A row a previous instance of the process left behind: a send_email job
\* with a callback_url, claimed for its first attempt, its lease long
\* expired.
Leftover ==
    [NewRow("send_email", TRUE, NOW) EXCEPT
        !.status = "processing", !.updated_at = NOW - Horizon]

\* ----------------------------------------------------------------- Init
Init ==
    /\ jobs \in { <<>>, <<Leftover>> }
    /\ pc = [w \in Workers |-> "top"]
    /\ id = [w \in Workers |-> 0]
    /\ start = [w \in Workers |-> NOW]
    /\ res = [w \in Workers |-> NoResult]
    /\ duration = [w \in Workers |-> 0]
    /\ retryCount = [w \in Workers |-> 0]
    /\ status = [w \in Workers |-> NULL]
    /\ nextRun = [w \in Workers |-> NOW]
    /\ ins = [w \in Workers |-> 0]
    /\ spc = "waiting"
    /\ nextTick = NOW + sweepInterval
    /\ tickReady = FALSE
    /\ mpc = "boot"
    /\ storeErrs = 0
    /\ log = [j \in 1..MaxRows |->
                [calls |-> 0, posts |-> 0, statuses |-> {}, delays |-> {},
                 body |-> "none", age |-> 0, orphan |-> FALSE]]

\* A context that is done only once main has returned from wg.Wait().
cancelled_late == mpc = "done"

\* ctx.Done() is closed: main has called cancel().
cancelled == mpc \in {"stopping", "done"}

\* main has run recoverStuckJobs and started the goroutines.
started == mpc # "boot"

\* The HTTP server takes requests: from its start until the process ends
\* (a request may arrive before server.Shutdown has closed the listener, and
\* a handler that is running finishes its INSERT).
serving == mpc \in {"serving", "stopping"}

\* A store statement fails: the budget of store errors is spent.
StoreFails ==
    /\ storeErrs < MaxStoreErrors
    /\ storeErrs' = storeErrs + 1

\* ------------------------------------------------------ row updates
\* The claim's UPDATE (startWorker).
claimRow(row, t) == [row EXCEPT !.status = "processing", !.updated_at = t]

\* processJob's UPDATE after a failed execution.
recordFailure(row, r, d, t) ==
    [row EXCEPT !.last_error = r.err, !.response_status = r.code,
                !.response_body = r.body,
                !.execution_time_ms = d, !.updated_at = t]

\* processJob's UPDATE after a successful execution.
recordSuccess(row, r, d, t) ==
    [row EXCEPT !.status = "completed", !.response_status = r.code,
                !.response_body = r.body,
                !.execution_time_ms = d, !.last_error = NULL,
                !.updated_at = t]

\* handleRetry's terminal decision.
exhausted(rc) == rc + 1 >= maxRetries

\* handleRetry's UPDATE of an exhausted job.
markFailed(row, t) ==
    [row EXCEPT !.status = "failed", !.retry_count = @ + 1, !.updated_at = t]

\* handleRetry's UPDATE that reschedules the job.
scheduleRetry(row, delay, t) ==
    [row EXCEPT !.status = "pending", !.retry_count = @ + 1,
                !.run_at = t + delay, !.updated_at = t]

\* ------------------------------------------------------------- workers
\* What no step of a worker changes.
others == <<spc, nextTick, tickReady, mpc>>

\* processJob returning with the job still in hand, straight into a claim.
Return_holding(w) ==
    /\ pc' = [pc EXCEPT ![w] = "claim"]
    /\ UNCHANGED <<id, locals>>

\* processJob returns: its locals are gone, the loop continues at the top.
Return(w) ==
    /\ pc' = [pc EXCEPT ![w] = "top"]
    /\ id' = [id EXCEPT ![w] = 0]
    /\ start' = [start EXCEPT ![w] = NOW]
    /\ res' = [res EXCEPT ![w] = NoResult]
    /\ duration' = [duration EXCEPT ![w] = 0]
    /\ retryCount' = [retryCount EXCEPT ![w] = 0]
    /\ status' = [status EXCEPT ![w] = NULL]
    /\ nextRun' = [nextRun EXCEPT ![w] = NOW]
    /\ ins' = [ins EXCEPT ![w] = 0]

\* startWorker without the select on ctx.Done(): the loop goes on to claim.
WorkerPoll_unchecked(w) ==
    /\ started
    /\ pc[w] = "top"
    /\ pc' = [pc EXCEPT ![w] = "claim"]
    /\ UNCHANGED <<jobs, id, locals, others, storeErrs, log>>

\* startWorker: the select on ctx.Done() at the top of the loop.
WorkerPoll(w) ==
    /\ started
    /\ pc[w] = "top"
    /\ pc' = [pc EXCEPT ![w] = IF cancelled THEN "exited" ELSE "claim"]
    /\ UNCHANGED <<jobs, id, locals, others, storeErrs, log>>

\* startWorker: the claim's UPDATE returns the id of a row; processJob is
\* called with it.
Claim(w) ==
    /\ pc[w] = "claim"
    /\ Ready(jobs) # {}
    /\ LET j == MinOf(Ready(jobs)) IN
         /\ jobs' = [jobs EXCEPT ![j] = claimRow(@, NOW)]
         /\ id' = [id EXCEPT ![w] = j]
         /\ log' = [log EXCEPT ![j].age = 0, ![j].orphan = FALSE]
    /\ pc' = [pc EXCEPT ![w] = "fetch"]
    /\ UNCHANGED <<locals, others, storeErrs>>

\* startWorker: sql.ErrNoRows, sleep and continue.
ClaimNone(w) ==
    /\ pc[w] = "claim"
    /\ Ready(jobs) = {}
    /\ pc' = [pc EXCEPT ![w] = "top"]
    /\ UNCHANGED <<jobs, id, locals, others, storeErrs, log>>

\* startWorker: the claim fails, sleep and continue.
ClaimError(w) ==
    /\ pc[w] = "claim"
    /\ StoreFails
    /\ pc' = [pc EXCEPT ![w] = "top"]
    /\ UNCHANGED <<jobs, id, locals, others, log>>

\* processJob: the SELECT of the row answers; the timer is started and the
\* handler invoked (executeCronSchedule computes nextRun as it is entered).
Fetch(w) ==
    /\ pc[w] = "fetch"
    /\ start' = [start EXCEPT ![w] = NOW]
    /\ \E n \in NextRuns(jobs[id[w]]) : nextRun' = [nextRun EXCEPT ![w] = n]
    /\ log' = [log EXCEPT ![id[w]].calls = Bump(@, MaxCalls)]
    /\ pc' = [pc EXCEPT ![w] = "exec"]
    /\ UNCHANGED <<jobs, id, res, duration, retryCount, status, ins, others,
                   storeErrs>>

\* processJob: the SELECT of the row fails; processJob returns.
FetchError(w) ==
    /\ pc[w] = "fetch"
    /\ StoreFails
    /\ log' = [log EXCEPT ![id[w]].orphan = TRUE]
    /\ Return(w)
    /\ UNCHANGED <<jobs, others>>

\* time.Since(start).Milliseconds()
Duration(w) == (NOW - start[w]) * 1000

\* executeDelay, executeCronSchedule: the next INSERT of the handler.
ExecInsert(w) ==
    /\ pc[w] = "exec"
    /\ LET rows == Inserts(jobs[id[w]], nextRun[w]) IN
         /\ ins[w] < Len(rows)
         /\ Len(jobs) + (Len(rows) - ins[w]) <= MaxRows
         /\ jobs' = Append(jobs, rows[ins[w] + 1])
    /\ ins' = [ins EXCEPT ![w] = @ + 1]
    /\ UNCHANGED <<pc, id, start, res, duration, retryCount, status, nextRun,
                   others, storeErrs, log>>

\* jobs.Execute returns r to processJob, which wraps a responseBody that is
\* no JSON and takes duration; the UPDATE of the outcome is still to come.
\* The locals of the handler are gone; ins keeps how many INSERTs it
\* executed.
Returned(w, r) ==
    /\ res' = [res EXCEPT ![w] = [r EXCEPT !.body = WrapBody(r.body)]]
    /\ duration' = [duration EXCEPT ![w] = Duration(w)]
    /\ start' = [start EXCEPT ![w] = NOW]
    /\ nextRun' = [nextRun EXCEPT ![w] = NOW]
    /\ pc' = [pc EXCEPT ![w] = "outcome"]
    /\ UNCHANGED <<jobs, id, retryCount, status, ins, others, log>>

\* executeDelay, executeCronSchedule: the next INSERT of the handler fails
\* and the handler returns its error (the rows it inserted before stay in
\* the table).
ExecInsertFailed(w) ==
    /\ pc[w] = "exec"
    /\ ins[w] < Len(Inserts(jobs[id[w]], nextRun[w]))
    /\ StoreFails
    /\ Returned(w, [code |-> 0, body |-> "nil", err |-> "store error"])

\* processJob: jobs.Execute returns (a scheduling handler returns without
\* error after the last of its INSERTs).
ExecReturns(w) ==
    /\ pc[w] = "exec"
    /\ \E r \in Execute(jobs[id[w]].type, PayloadOf(jobs[id[w]])) :
         /\ r.err = NULL => ins[w] = Len(Inserts(jobs[id[w]], nextRun[w]))
         /\ Returned(w, r)
    /\ UNCHANGED storeErrs

\* processJob goes on from the UPDATE of the outcome: responseBody and
\* duration are not read again.
Handled(w) ==
    /\ res' = [res EXCEPT ![w] = NoResult]
    /\ duration' = [duration EXCEPT ![w] = 0]
    /\ ins' = [ins EXCEPT ![w] = 0]
    /\ UNCHANGED <<id, start, retryCount, status, nextRun>>

\* processJob, execErr != nil: the diagnostic UPDATE, which is executed,
\* rejected or fails (its error is dropped), then handleRetry.
ExecFailed(w) ==
    /\ pc[w] = "outcome"
    /\ res[w].err # NULL
    /\ log' = [log EXCEPT ![id[w]].body = res[w].body]
    /\ \/ /\ jobs' = IF StoreAccepts(res[w].body)
                   THEN [jobs EXCEPT ![id[w]] =
                           recordFailure(@, res[w], duration[w], NOW)]
                   ELSE jobs
          /\ UNCHANGED storeErrs
       \/ /\ StoreFails
          /\ UNCHANGED jobs
    /\ pc' = [pc EXCEPT ![w] = "retrySelect"]
    /\ Handled(w)
    /\ UNCHANGED others

\* processJob, execErr == nil: the completion UPDATE, which is executed,
\* rejected or fails (its error is logged), then the callback.
ExecSucceeded(w) ==
    /\ pc[w] = "outcome"
    /\ res[w].err = NULL
    /\ log' = [log EXCEPT ![id[w]].body = res[w].body]
    /\ \/ /\ jobs' = IF StoreAccepts(res[w].body)
                   THEN [jobs EXCEPT ![id[w]] =
                           recordSuccess(@, res[w], duration[w], NOW)]
                   ELSE jobs
          /\ UNCHANGED storeErrs
       \/ /\ StoreFails
          /\ UNCHANGED jobs
    /\ pc' = [pc EXCEPT ![w] = "callback"]
    /\ Handled(w)
    /\ UNCHANGED others

\* handleRetry: SELECT retry_count.
RetrySelect(w) ==
    /\ pc[w] = "retrySelect"
    /\ retryCount' = [retryCount EXCEPT ![w] = jobs[id[w]].retry_count]
    /\ pc' = [pc EXCEPT ![w] = "retryUpdate"]
    /\ UNCHANGED <<jobs, id, start, res, duration, status, nextRun, ins,
                   others, storeErrs, log>>

\* handleRetry: the SELECT fails; handleRetry and processJob return.
RetrySelectError(w) ==
    /\ pc[w] = "retrySelect"
    /\ StoreFails
    /\ Return(w)
    /\ UNCHANGED <<jobs, others, log>>

\* handleRetry: retryCount+1 >= maxRetries, mark failed, then the callback.
RetryFail(w) ==
    /\ pc[w] = "retryUpdate"
    /\ exhausted(retryCount[w])
    /\ \/ /\ jobs' = [jobs EXCEPT ![id[w]] = markFailed(@, NOW)]
          /\ UNCHANGED storeErrs
       \/ /\ StoreFails
          /\ UNCHANGED jobs
    /\ pc' = [pc EXCEPT ![w] = "callback"]
    /\ retryCount' = [retryCount EXCEPT ![w] = 0]
    /\ UNCHANGED <<id, start, res, duration, status, nextRun, ins, others,
                   log>>

\* handleRetry: reschedule after nextDelay.
RetryReschedule(w) ==
    /\ pc[w] = "retryUpdate"
    /\ ~exhausted(retryCount[w])
    /\ \/ /\ jobs' = [jobs EXCEPT ![id[w]] =
                        scheduleRetry(@, nextDelay(retryCount[w]), NOW)]
          /\ log' = [log EXCEPT ![id[w]].delays =
                        @ \cup {<<retryCount[w], nextDelay(retryCount[w])>>}]
          /\ UNCHANGED storeErrs
       \/ /\ StoreFails
          /\ UNCHANGED <<jobs, log>>
    /\ Return(w)
    /\ UNCHANGED others

\* triggerAutoCallback: no callback_url in the payload.
CallbackNone(w) ==
    /\ pc[w] = "callback"
    /\ ~jobs[id[w]].cb
    /\ Return(w)
    /\ UNCHANGED <<jobs, others, storeErrs, log>>

\* triggerAutoCallback: the SELECT of the row answers and the request is
\* built from the status it read.
CallbackRead(w) ==
    /\ pc[w] = "callback"
    /\ jobs[id[w]].cb
    /\ jobs[id[w]].cbValid
    /\ status' = [status EXCEPT ![w] = jobs[id[w]].status]
    /\ pc' = [pc EXCEPT ![w] = "post"]
    /\ UNCHANGED <<jobs, id, start, res, duration, retryCount, nextRun, ins,
                   others, storeErrs, log>>

\* triggerAutoCallback: the SELECT of the row fails, nothing is sent.
CallbackFetchError(w) ==
    /\ pc[w] = "callback"
    /\ jobs[id[w]].cb
    /\ StoreFails
    /\ Return(w)
    /\ UNCHANGED <<jobs, others, log>>

\* triggerAutoCallback: the row is read and http.NewRequest rejects the
\* callback_url, nothing is sent.
CallbackRequestError(w) ==
    /\ pc[w] = "callback"
    /\ jobs[id[w]].cb
    /\ ~jobs[id[w]].cbValid
    /\ Return(w)
    /\ UNCHANGED <<jobs, others, storeErrs, log>>

\* triggerAutoCallback: client.Do delivers the POST and waits for the
\* answer.
CallbackPost(w) ==
    /\ pc[w] = "post"
    /\ log' = [log EXCEPT ![id[w]].posts = Bump(@, MaxPosts),
                          ![id[w]].statuses = @ \cup {status[w]}]
    /\ status' = [status EXCEPT ![w] = NULL]
    /\ pc' = [pc EXCEPT ![w] = "posted"]
    /\ UNCHANGED <<jobs, id, start, res, duration, retryCount, nextRun, ins,
                   others, storeErrs>>

\* triggerAutoCallback: client.Do fails before the POST is delivered.
CallbackSendError(w) ==
    /\ pc[w] = "post"
    /\ log' = [log EXCEPT ![id[w]].posts = Bump(@, MaxPosts)]
    /\ Return(w)
    /\ UNCHANGED <<jobs, others, storeErrs>>

\* triggerAutoCallback: the answer to the POST arrives, or client.Do gives
\* up waiting for it after its timeout; either is only logged.
CallbackAnswered(w) ==
    /\ pc[w] = "posted"
    /\ Return(w)
    /\ UNCHANGED <<jobs, others, storeErrs, log>>

\* ------------------------------------------------------- recovery loop
\* startRecoveryLoop: the select takes the tick that waits in ticker.C and
\* recoverStuckJobs is called.
SweepTake ==
    /\ started
    /\ spc = "waiting"
    /\ tickReady
    /\ spc' = "sweeping"
    /\ tickReady' = FALSE
    /\ UNCHANGED <<jobs, wvars, nextTick, mpc, storeErrs, log>>

\* recoverStuckJobs, called by the loop: its UPDATE is executed; the loop is
\* back at its select.
SweepTick ==
    /\ spc = "sweeping"
    /\ jobs' = recoverStuckJobs(jobs)
    /\ spc' = "waiting"
    /\ UNCHANGED <<wvars, nextTick, tickReady, mpc, storeErrs, log>>

\* recoverStuckJobs, called by the loop: its UPDATE fails, which is logged;
\* the loop is back at its select.
SweepError ==
    /\ spc = "sweeping"
    /\ StoreFails
    /\ spc' = "waiting"
    /\ UNCHANGED <<jobs, wvars, nextTick, tickReady, mpc, log>>

\* startRecoveryLoop: the select takes ctx.Done(); the loop returns and its
\* ticker is stopped.
SweeperExit ==
    /\ spc = "waiting"
    /\ cancelled
    /\ spc' = "exited"
    /\ nextTick' = NOW + sweepInterval
    /\ tickReady' = FALSE
    /\ UNCHANGED <<jobs, wvars, mpc, storeErrs, log>>

\* ----------------------------------------------------------------- main
\* main: recoverStuckJobs, then the workers and the recovery loop start.
Boot ==
    /\ mpc = "boot"
    /\ jobs' = recoverStuckJobs(jobs)
    /\ nextTick' = NOW + sweepInterval
    /\ mpc' = "serving"
    /\ UNCHANGED <<wvars, spc, tickReady, storeErrs, log>>

\* main: recoverStuckJobs' UPDATE fails, which is logged; then the workers
\* and the recovery loop start.
BootError ==
    /\ mpc = "boot"
    /\ StoreFails
    /\ nextTick' = NOW + sweepInterval
    /\ mpc' = "serving"
    /\ UNCHANGED <<jobs, wvars, spc, tickReady, log>>

\* main: the signal arrives, cancel().
Signal ==
    /\ mpc = "serving"
    /\ mpc' = "stopping"
    /\ UNCHANGED <<jobs, wvars, spc, nextTick, tickReady, storeErrs, log>>

\* main: wg.Wait() returns.
WaitReturns ==
    /\ mpc = "stopping"
    /\ spc = "exited"
    /\ \A w \in Workers : pc[w] = "exited"
    /\ mpc' = "done"
    /\ UNCHANGED <<jobs, wvars, spc, nextTick, tickReady, storeErrs, log>>

\* ------------------------------------------------------------------ API
\* The requests the clients send: type, whether the payload carries a
\* callback_url and whether that url is one a request can be built from, and
\* run_at as an offset from the time of the request.
Requests ==
    { [type |-> "http_request", cb |-> TRUE,  cbValid |-> TRUE,
       off |-> 0],
      [type |-> "send_email",   cb |-> FALSE, cbValid |-> TRUE,
       off |-> baseDelay],
      [type |-> "bogus",        cb |-> TRUE,  cbValid |-> FALSE,
       off |-> 0] }

\* jobsHandler, POST: a row is inserted as pending.
Submit ==
    /\ serving
    /\ Len(jobs) < MaxJobs
    /\ \E rq \in Requests :
         jobs' = Append(jobs, [NewRow(rq.type, rq.cb, NOW + rq.off)
                                  EXCEPT !.cbValid = rq.cbValid])
    /\ UNCHANGED <<wvars, spc, nextTick, tickReady, mpc, storeErrs, log>>

\* ---------------------------------------------------------------- clock
\* The ticker of the recovery loop fires as the clock advances by Quantum.
TickerFires == spc # "exited" /\ nextTick - Quantum <= NOW

\* The clock advances by Quantum; a tick of the ticker that falls due goes
\* to ticker.C unless one waits there, and the next is due a period later.
Advance ==
    /\ started
    /\ jobs' = Elapse(jobs)
    /\ start' = [w \in Workers |->
                   IF pc[w] = "exec"
                   THEN Later(start[w], NOW - MaxDuration) ELSE start[w]]
    /\ nextRun' = [w \in Workers |->
                     IF pc[w] = "exec"
                     THEN Later(nextRun[w], NOW) ELSE nextRun[w]]
    /\ nextTick' = IF spc = "exited" THEN nextTick
                   ELSE IF TickerFires THEN NOW + sweepInterval
                   ELSE nextTick - Quantum
    /\ tickReady' = (tickReady \/ TickerFires)
    /\ UNCHANGED <<pc, id, res, duration, retryCount, status, ins, spc, mpc,
                   storeErrs>>

Tick ==
    /\ Advance
    /\ UNCHANGED log

\* The steps of a worker in which every store statement succeeds, for a job
\* that is not a scheduling job and whose callback_url, if it has one, is
\* one a request can be built from.
StepsOk(w) ==
    \/ WorkerPoll(w)
    \/ Claim(w)
    \/ ClaimNone(w)
    \/ Fetch(w)
    \/ ExecReturns(w)
    \/ ExecFailed(w)
    \/ ExecSucceeded(w)
    \/ RetrySelect(w)
    \/ RetryFail(w)
    \/ RetryReschedule(w)
    \/ CallbackNone(w)
    \/ CallbackRead(w)
    \/ CallbackPost(w)
    \/ CallbackSendError(w)
    \/ CallbackAnswered(w)

\* The steps of a worker at a store statement that fails.
StepsErr(w) ==
    \/ ClaimError(w)
    \/ FetchError(w)
    \/ RetrySelectError(w)
    \/ CallbackFetchError(w)

WorkerStep(w) ==
    \/ StepsOk(w)
    \/ StepsErr(w)
    \/ CallbackRequestError(w)

Next ==
    \/ \E w \in Workers : WorkerStep(w)
    \/ SweepTake
    \/ SweepTick
    \/ SweepError
    \/ SweeperExit
    \/ Boot
    \/ BootError
    \/ Signal
    \/ WaitReturns
    \/ Submit
    \/ Tick

Spec == Init /\ [][Next]_vars

\* --------------------------------------------------------- sound store
\* The runs against a store that never fails a statement, in which at most
\* one goroutine at a time is slow, for the row a previous instance left
\* behind or one request for a job whose handler returns no responseBody
\* with its error.
InitSound ==
    /\ jobs \in { <<>>, <<Leftover>> }
    /\ pc = [w \in Workers |-> "top"]
    /\ id = [w \in Workers |-> 0]
    /\ start = [w \in Workers |-> NOW]
    /\ res = [w \in Workers |-> NoResult]
    /\ duration = [w \in Workers |-> 0]
    /\ retryCount = [w \in Workers |-> 0]
    /\ status = [w \in Workers |-> NULL]
    /\ nextRun = [w \in Workers |-> NOW]
    /\ ins = [w \in Workers |-> 0]
    /\ spc = "waiting"
    /\ nextTick = NOW + sweepInterval
    /\ tickReady = FALSE
    /\ mpc = "boot"
    /\ storeErrs = MaxStoreErrors
    /\ log = [j \in 1..MaxRows |->
                [calls |-> 0, posts |-> 0, statuses |-> {}, delays |-> {},
                 body |-> "none", age |-> 0, orphan |-> FALSE]]

\* The workers that are inside processJob.
Busy == { w \in Workers : pc[w] \notin {"top", "claim", "exited"} }

\* The recovery loop has taken every tick that fell due, and the UPDATE of
\* recoverStuckJobs is done.
OnTime == spc # "sweeping" /\ ~tickReady

\* The clock advances while at most one goroutine is slow: one worker inside
\* processJob, or the recovery loop with a tick to take or its UPDATE to
\* execute.
TickOneSlow ==
    /\ Cardinality(Busy) + (IF OnTime THEN 0 ELSE 1) <= 1
    /\ Tick

\* The requests for a send_email job and for a job of no handler kind.
RequestsSound == { rq \in Requests : rq.type # "http_request" }

\* jobsHandler, POST of one of these requests.
SubmitSound ==
    /\ serving
    /\ Len(jobs) < MaxJobs
    /\ \E rq \in RequestsSound :
         jobs' = Append(jobs, [NewRow(rq.type, rq.cb, NOW + rq.off)
                                  EXCEPT !.cbValid = rq.cbValid])
    /\ UNCHANGED <<wvars, spc, nextTick, tickReady, mpc, storeErrs, log>>

NextSound ==
    \/ \E w \in Workers : StepsOk(w)
    \/ \E w \in Workers : CallbackRequestError(w)
    \/ SweepTake
    \/ SweepTick
    \/ SweeperExit
    \/ Boot
    \/ Signal
    \/ WaitReturns
    \/ SubmitSound
    \/ TickOneSlow

SpecSound == InitSound /\ [][NextSound]_vars

\* -------------------------------------------------------------- restart
\* The runs of a process that finds the row a previous instance left behind
\* (a job with a callback_url a request can be built from) and gets no
\* request: the store may fail a statement, and at most one goroutine at a
\* time (a worker or the recovery loop) is slow.
InitRestart == Init /\ jobs = <<Leftover>>

WorkerStepRestart(w) ==
    \/ WorkerPoll(w)
    \/ Claim(w)
    \/ ClaimNone(w)
    \/ ClaimError(w)
    \/ Fetch(w)
    \/ FetchError(w)
    \/ ExecReturns(w)
    \/ ExecFailed(w)
    \/ ExecSucceeded(w)
    \/ RetrySelect(w)
    \/ RetrySelectError(w)
    \/ RetryFail(w)
    \/ RetryReschedule(w)
    \/ CallbackRead(w)
    \/ CallbackFetchError(w)
    \/ CallbackPost(w)
    \/ CallbackSendError(w)
    \/ CallbackAnswered(w)

NextRestart ==
    \/ \E w \in Workers : WorkerStepRestart(w)
    \/ SweepTake
    \/ SweepTick
    \/ SweepError
    \/ SweeperExit
    \/ Boot
    \/ BootError
    \/ Signal
    \/ WaitReturns
    \/ TickOneSlow

SpecRestart == InitRestart /\ [][NextRestart]_vars

\* ------------------------------------------------------------ scheduling
\* The runs of the scheduling handlers: one request of a delay (for an
\* http_request job, for a delay job that in turn schedules an http_request
\* job whose callback_url no request can be built from, or without the
\* fields the handler reads), a cron_schedule (with an expression that occurs
\* every baseDelay, or with one that never occurs) or a db_query job is sent
\* to a process that is not shut down, whose store does not fail, and whose
\* attempts each take less than a step of the clock.
RequestsSched ==
    { [type |-> "delay", cb |-> FALSE,
       payload |-> [seconds |-> 2 * baseDelay,
                    next_job |-> [type |-> "http_request", cb |-> TRUE,
                                  cbValid |-> TRUE, payload |-> NoPayload]]],
      [type |-> "delay", cb |-> FALSE,
       payload |-> [seconds |-> baseDelay,
                    next_job |->
                      [type |-> "delay", cb |-> FALSE, cbValid |-> TRUE,
                       payload |->
                         [seconds |-> baseDelay,
                          next_job |-> [type |-> "http_request", cb |-> TRUE,
                                        cbValid |-> FALSE,
                                        payload |-> NoPayload]]]]],
      [type |-> "delay", cb |-> FALSE, payload |-> NoPayload],
      [type |-> "cron_schedule", cb |-> TRUE,
       payload |-> [cron |-> baseDelay,
                    job |-> [type |-> "send_email", cb |-> FALSE,
                             cbValid |-> TRUE, payload |-> NoPayload]]],
      [type |-> "cron_schedule", cb |-> FALSE,
       payload |-> [cron |-> Never,
                    job |-> [type |-> "send_email", cb |-> FALSE,
                             cbValid |-> TRUE, payload |-> NoPayload]]],
      [type |-> "db_query", cb |-> TRUE, payload |-> NoPayload] }

InitSched ==
    /\ jobs = <<>>
    /\ pc = [w \in Workers |-> "top"]
    /\ id = [w \in Workers |-> 0]
    /\ start = [w \in Workers |-> NOW]
    /\ res = [w \in Workers |-> NoResult]
    /\ duration = [w \in Workers |-> 0]
    /\ retryCount = [w \in Workers |-> 0]
    /\ status = [w \in Workers |-> NULL]
    /\ nextRun = [w \in Workers |-> NOW]
    /\ ins = [w \in Workers |-> 0]
    /\ spc = "waiting"
    /\ nextTick = NOW + sweepInterval
    /\ tickReady = FALSE
    /\ mpc = "boot"
    /\ storeErrs = MaxStoreErrors
    /\ log = [j \in 1..MaxRows |->
                [calls |-> 0, posts |-> 0, statuses |-> {}, delays |-> {},
                 body |-> "none", age |-> 0, orphan |-> FALSE]]

\* jobsHandler, POST: a row is inserted as pending, run_at now.
SubmitSched ==
    /\ serving
    /\ Len(jobs) < MaxJobs
    /\ \E rq \in RequestsSched :
         jobs' = Append(jobs, NewJob(rq.type, rq.cb, NOW, rq.payload))
    /\ UNCHANGED <<wvars, spc, nextTick, tickReady, mpc, storeErrs, log>>

\* The clock advances while no worker is inside an attempt and no tick of
\* the recovery loop is due.
TickQuiet ==
    /\ \A w \in Workers : pc[w] \in {"top", "claim"}
    /\ OnTime
    /\ Tick

WorkerStepSched(w) ==
    \/ StepsOk(w)
    \/ ExecInsert(w)

NextSched ==
    \/ \E w \in Workers : WorkerStepSched(w)
    \/ \E w \in Workers : CallbackRequestError(w)
    \/ SweepTake
    \/ SweepTick
    \/ Boot
    \/ SubmitSched
    \/ TickQuiet

SpecSched == InitSched /\ [][NextSched]_vars

\* ------------------------------------------------------------ cron chain
\* The runs of a cron_schedule job whose handler may take any time to reach
\* its first INSERT (which carries no deadline), while every other step of a
\* worker takes less than a step of the clock: one cron_schedule request is
\* sent to a process that is not shut down and whose store does not fail.
RequestsCron ==
    { [type |-> "cron_schedule", cb |-> FALSE,
       payload |-> [cron |-> baseDelay,
                    job |-> [type |-> "send_email", cb |-> TRUE,
                             cbValid |-> TRUE, payload |-> NoPayload]]] }

\* jobsHandler, POST of a cron_schedule job.
SubmitCron ==
    /\ serving
    /\ Len(jobs) < MaxJobs
    /\ \E rq \in RequestsCron :
         jobs' = Append(jobs, NewJob(rq.type, rq.cb, NOW, rq.payload))
    /\ UNCHANGED <<wvars, spc, nextTick, tickReady, mpc, storeErrs, log>>

\* The clock advances while no worker is inside an attempt other than in the
\* handler of a cron_schedule job, before the first of its INSERTs, and no
\* tick of the recovery loop is due.
TickCron ==
    /\ \A w \in Workers :
          \/ pc[w] \in {"top", "claim"}
          \/ /\ pc[w] = "exec"
             /\ jobs[id[w]].type = "cron_schedule"
             /\ ins[w] = 0
    /\ OnTime
    /\ Tick

NextCron ==
    \/ \E w \in Workers : WorkerStepSched(w)
    \/ SweepTake
    \/ SweepTick
    \/ Boot
    \/ SubmitCron
    \/ TickCron

SpecCron == InitSched /\ [][NextCron]_vars

\* The runs of a cron_schedule job against a store that may fail a
\* statement, every attempt taking less than a step of the clock.
InitFaulty == Init /\ jobs = << >>

NextCronFaulty ==
    \/ \E w \in Workers : WorkerStepSched(w)
    \/ \E w \in Workers : ExecInsertFailed(w)
    \/ SweepTake
    \/ SweepTick
    \/ Boot
    \/ SubmitCron
    \/ TickQuiet

SpecCronFaulty == InitFaulty /\ [][NextCronFaulty]_vars

\* --------------------------------------------------------- quick attempts
\* The runs against a store that never fails a statement, in which every
\* attempt takes less than a step of the clock, for the row a previous
\* instance left behind or one request of any kind.
NextQuiet ==
    \/ \E w \in Workers : StepsOk(w)
    \/ \E w \in Workers : CallbackRequestError(w)
    \/ SweepTake
    \/ SweepTick
    \/ SweeperExit
    \/ Boot
    \/ Signal
    \/ WaitReturns
    \/ Submit
    \/ TickQuiet

SpecQuiet == InitSound /\ [][NextQuiet]_vars

\* -------------------------------------------------------------- shutdown
\* The runs in which every attempt takes less than a step of the clock, and
\* in which every goroutine that can take a step eventually takes one.
NextStop ==
    \/ \E w \in Workers : WorkerStep(w)
    \/ SweepTake
    \/ SweepTick
    \/ SweepError
    \/ SweeperExit
    \/ Boot
    \/ BootError
    \/ Signal
    \/ WaitReturns
    \/ Submit
    \/ TickQuiet

Fairness ==
    /\ \A w \in Workers : WF_vars(WorkerStep(w))
    /\ WF_vars(SweepTick \/ SweepError)
    /\ SF_vars(SweeperExit)
    /\ WF_vars(WaitReturns)

SpecStop == Init /\ [][NextStop]_vars /\ Fairness

\* -------------------------------------------------------------- progress
\* The runs in which every attempt takes less than a step of the clock, every
\* goroutine that can take a step eventually takes one, the recovery loop's
\* ticker keeps firing and time keeps passing.
FairnessLive ==
    /\ \A w \in Workers : WF_vars(WorkerStep(w))
    /\ WF_vars(Boot \/ BootError)
    /\ WF_vars(SweepTake)
    /\ WF_vars(SweepTick \/ SweepError)
    /\ SF_vars(SweeperExit)
    /\ WF_vars(WaitReturns)
    /\ WF_vars(TickQuiet)

SpecLive == Init /\ [][NextStop]_vars /\ FairnessLive

\* ------------------------------------------------------ timed attempts
\* Worker w has claimed a job and not yet written its outcome.
InFlight(w) ==
    pc[w] \in {"fetch", "exec", "outcome", "retrySelect", "retryUpdate"}

\* The jobs that some worker has claimed and not yet written the outcome of.
Running == { id[w] : w \in { v \in Workers : InFlight(v) } }

\* The clock advances while every attempt, from its claim to the worker's
\* outcome UPDATE, stays shorter than processingTimeout.
TickBounded ==
    /\ \A j \in Running : log[j].age + Quantum < processingTimeout
    /\ Advance
    /\ log' = [j \in 1..MaxRows |->
                 [log[j] EXCEPT !.age = IF j \in Running
                                        THEN @ + Quantum ELSE 0]]

\* The runs in which every attempt is shorter than processingTimeout, of a
\* process that finds the row a previous instance left behind and gets no
\* request: the store may fail a statement, and the workers and the recovery
\* loop may be slow together.
NextBounded ==
    \/ \E w \in Workers : WorkerStepRestart(w)
    \/ SweepTake
    \/ SweepTick
    \/ SweepError
    \/ SweeperExit
    \/ Boot
    \/ BootError
    \/ Signal
    \/ WaitReturns
    \/ TickBounded

SpecBounded == InitRestart /\ [][NextBounded]_vars

\* ================================================================ claims
Terminal == {"completed", "failed"}

\* A run of recoverStuckJobs from the recovery loop, at a tick: its UPDATE
\* is executed or fails.
SweeperTick == spc = "sweeping" /\ spc' # "sweeping"

\* A run of recoverStuckJobs, from main at startup or from the recovery
\* loop.
SweeperStep ==
    \/ mpc = "boot" /\ mpc' # "boot"
    \/ SweeperTick

\* C1: no job id is held in processing (claimed, no outcome written yet) by
\* two workers at the same time.
MutualExclusion ==
    \A w1, w2 \in Workers :
        (w1 # w2 /\ InFlight(w1) /\ InFlight(w2)) => id[w1] # id[w2]

\* C2: once a row is completed or failed, no later step changes its status.
TerminalFinality ==
    [][\A j \in Ids(jobs) :
          jobs[j].status \in Terminal => jobs'[j].status = jobs[j].status]_vars

\* C3: every change of a row's status is pending -> processing,
\* processing -> completed, processing -> pending or processing -> failed.
LegalStatusChanges ==
    { <<"pending", "processing">>, <<"processing", "completed">>,
      <<"processing", "pending">>, <<"processing", "failed">> }

OnlyLegalTransitions ==
    [][\A j \in Ids(jobs) :
          jobs'[j].status # jobs[j].status =>
             <<jobs[j].status, jobs'[j].status>> \in LegalStatusChanges]_vars

\* C4: retry_count never exceeds maxRetries.
RetryCountBounded ==
    \A j \in Ids(jobs) : jobs[j].retry_count <= maxRetries

\* C5: a row is failed only with retry_count = maxRetries.
FailedMeansMaxRetries ==
    \A j \in Ids(jobs) :
        jobs[j].status = "failed" => jobs[j].retry_count = maxRetries

\* C6: a job whose handler fails on every attempt (its type has no handler)
\* ends in failed after exactly maxRetries handler invocations, with
\* retry_count = maxRetries, once every invocation has returned.
AlwaysFailingJobRunsMaxRetries ==
    \A j \in Ids(jobs) :
        ( /\ jobs[j].type = "bogus"
          /\ jobs[j].status = "failed"
          /\ \A w \in Workers : id[w] # j )
        => (log[j].calls = maxRetries /\ jobs[j].retry_count = maxRetries)

\* C7, as stated: a job that has been marked failed has had the delays
\* 5 s, 10 s and 20 s applied.
BackoffDelays_5_10_20 ==
    \A j \in Ids(jobs) :
        jobs[j].status = "failed" =>
            { d[2] : d \in log[j].delays } = { baseDelay, 2 * baseDelay, 4 * baseDelay }

\* C7, amended: the only delays handleRetry ever applies are 5 s, when it has
\* read retry_count 0, and 10 s, when it has read 1; when it has read 2 or
\* more it reschedules nothing (it leaves run_at as it is and changes the
\* status to nothing but failed): no delay of 20 s is ever applied.
BackoffDelays_5_10 ==
    /\ [](\A j \in Ids(jobs) :
            log[j].delays \subseteq { <<0, baseDelay>>, <<1, 2 * baseDelay>> })
    /\ [][\A w \in Workers :
             ( /\ pc[w] = "retryUpdate" /\ pc'[w] # "retryUpdate"
               /\ retryCount[w] >= maxRetries - 1 )
             => ( /\ jobs'[id[w]].run_at = jobs[id[w]].run_at
                  /\ jobs'[id[w]].status \in {jobs[id[w]].status, "failed"}
                  /\ log'[id[w]].delays = log[id[w]].delays )]_vars

\* C7, witness: a job marked failed after both delays were applied.
FailedAfterBothDelays ==
    \E j \in Ids(jobs) :
        /\ jobs[j].status = "failed"
        /\ jobs[j].retry_count = maxRetries
        /\ log[j].calls = maxRetries
        /\ log[j].delays = { <<0, baseDelay>>, <<1, 2 * baseDelay>> }

\* C8: while the recovery loop runs, a row whose worker is stuck in the
\* handler is never in processing for longer than processingTimeout +
\* sweepInterval after its claim.
RecoveredWithinDeadline ==
    \A w \in Workers :
        ( /\ spc # "exited"
          /\ pc[w] = "exec"
          /\ jobs[id[w]].status = "processing" )
        => jobs[id[w]].updated_at >= NOW - (processingTimeout + sweepInterval)

\* C9: a run of recoverStuckJobs leaves every row as it was, except that a
\* row in processing may become pending with updated_at stamped now:
\* retry_count, run_at, last_error and the response fields never change.
SweeperFrame ==
    [][SweeperStep =>
         /\ Len(jobs') = Len(jobs)
         /\ \A j \in Ids(jobs) :
              \/ jobs'[j] = jobs[j]
              \/ /\ jobs[j].status = "processing"
                 /\ jobs'[j] = [jobs[j] EXCEPT !.status = "pending",
                                               !.updated_at = NOW]]_vars

\* C9, witness: the first attempt of a job failed and was recorded, the
\* second ended with the row left in processing, and the row is pending
\* again, stamped now, with the retry_count and the diagnostic fields the
\* first attempt left.
ReclaimedKeepsRecordedFailure ==
    \E j \in Ids(jobs) :
        /\ jobs[j].status = "pending"
        /\ jobs[j].updated_at = NOW
        /\ jobs[j].retry_count = 1
        /\ jobs[j].last_error # NULL
        /\ jobs[j].response_status # NULLINT
        /\ jobs[j].response_body # NULL
        /\ log[j].calls = 2
        /\ \A w \in Workers : id[w] # j

\* C10: for a job with a callback_url that a request can be built from,
\* exactly one callback POST is sent over its lifetime: never a second one,
\* and one once the job is terminal and no worker is still about to send it.
ExactlyOneCallback ==
    \A j \in Ids(jobs) :
        (jobs[j].cb /\ jobs[j].cbValid) =>
            /\ log[j].posts <= 1
            /\ ( /\ jobs[j].status \in Terminal
                 /\ \A w \in Workers : id[w] # j )
               => log[j].posts = 1

\* Worker w is in triggerAutoCallback.
InCallback(w) == pc[w] \in {"callback", "post", "posted"}

\* C11: every step of triggerAutoCallback, whether the callback is delivered
\* or fails at the row read, at the request, at the send or at the timeout,
\* leaves every row of the table as it was; and when it returns the worker is
\* back at the top of its loop with no job in hand: the callback is not
\* attempted again.
CallbackLeavesRow ==
    [][\A w \in Workers :
          (InCallback(w) /\ pc'[w] # pc[w]) =>
              /\ jobs' = jobs
              /\ InCallback(w)' \/ (pc'[w] = "top" /\ id'[w] = 0)]_vars

\* C11, witness: the only POST sent for a job failed, no worker holds the
\* job, and the row is completed.
CallbackFailedRowKept ==
    \E j \in Ids(jobs) :
        /\ jobs[j].cb
        /\ jobs[j].status = "completed"
        /\ log[j].posts = 1
        /\ log[j].statuses = {}
        /\ \A w \in Workers : id[w] # j

\* C12: every responseBody handed to the store is nil or parses as JSON.
ResponseBodyNullOrStructured ==
    \A j \in Ids(jobs) : log[j].body \in {"none", "nil", "json", "wrapped"}

\* C13: a row goes to processing, and a claim returns its id to a worker,
\* only when the row is pending with retry_count < maxRetries and
\* run_at <= NOW(): no job is handed to processJob before its run_at.
ClaimsOnlyReady ==
    [][\A j \in Ids(jobs) :
          ( \/ jobs[j].status # "processing" /\ jobs'[j].status = "processing"
            \/ \E w \in Workers :
                  pc[w] = "claim" /\ pc'[w] = "fetch" /\ id'[w] = j )
          => ( /\ jobs[j].status = "pending"
               /\ jobs[j].retry_count < maxRetries
               /\ jobs[j].run_at <= NOW )]_vars

\* C13, witness: the job a delay job inserted has failed once and is claimed
\* again after its backoff.
SuccessorClaimedAfterBackoff ==
    /\ Len(jobs) >= 2
    /\ jobs[1].type = "delay"
    /\ \E w \in Workers :
         /\ pc[w] = "fetch"
         /\ id[w] = 2
         /\ jobs[2].retry_count = 1
         /\ <<0, baseDelay>> \in log[2].delays

\* C14: the id a claim returns is the lowest among the rows that are ready
\* (pending, retry_count < maxRetries, run_at <= NOW()).
ClaimsLowestReadyId ==
    [][\A w \in Workers :
          (pc[w] = "claim" /\ pc'[w] = "fetch") =>
              \A k \in Ids(jobs) :
                  ( /\ jobs[k].status = "pending"
                    /\ jobs[k].retry_count < maxRetries
                    /\ jobs[k].run_at <= NOW )
                  => id'[w] <= k]_vars

\* C14, witness: of the two rows a cron_schedule job inserted, both ready,
\* the first has just been claimed and the second is still pending.
LowerOfTwoReadyClaimed ==
    /\ Len(jobs) = 3
    /\ jobs[1].type = "cron_schedule"
    /\ jobs[3].status = "pending"
    /\ jobs[3].run_at <= NOW
    /\ log[3].calls = 0
    /\ \E w \in Workers :
         /\ pc[w] = "fetch"
         /\ id[w] = 2
         /\ jobs[2].status = "processing"
         /\ jobs[2].updated_at = NOW
         /\ log[2].calls = 0

\* C15: a job whose type has no handler and that has ended in failed has
\* 'unknown job type' recorded and retry_count = maxRetries.
UnknownTypeFailsAtMaxRetries ==
    \A j \in Ids(jobs) :
        ( /\ jobs[j].type = "bogus"
          /\ jobs[j].status = "failed" )
        => ( /\ jobs[j].last_error = "unknown job type"
             /\ jobs[j].retry_count = maxRetries )

\* The nine handler kinds of the specification.
HandlerKinds ==
    { "http_request", "send_email", "webhook_delivery", "db_query",
      "data_extract", "ai_prompt", "delay", "cron_schedule", "callback" }

\* C16: jobs.Execute never answers a job of one of the nine handler kinds
\* with the unknown-job-type error.
NineKindsDispatched ==
    \A w \in Workers :
        (pc[w] = "outcome" /\ jobs[id[w]].type \in HandlerKinds)
            => res[w].err # "unknown job type"

\* Worker w executes an INSERT of the handler it runs.
Inserting(w) == pc[w] = "exec" /\ ins'[w] = ins[w] + 1

\* Worker w's handler has returned no error and processJob's completion
\* UPDATE is executed.
Completing(w) == pc[w] = "outcome" /\ pc'[w] = "callback"

\* C17: an INSERT of a delay job's handler adds one row, of type
\* next_job.type, pending, retry_count 0, run_at = NOW() + seconds; the
\* delay job is completed after exactly one INSERT; and no row is claimed
\* before its run_at.
DelayInsertsSuccessor ==
    /\ [][\A w \in Workers :
             (Inserting(w) /\ jobs[id[w]].type = "delay")
             => ( /\ ins[w] = 0
                  /\ Len(jobs') = Len(jobs) + 1
                  /\ jobs'[Len(jobs')].type = jobs[id[w]].payload.next_job.type
                  /\ jobs'[Len(jobs')].status = "pending"
                  /\ jobs'[Len(jobs')].retry_count = 0
                  /\ jobs'[Len(jobs')].run_at
                        = NOW + jobs[id[w]].payload.seconds )]_vars
    /\ [][\A w \in Workers :
             (Completing(w) /\ jobs[id[w]].type = "delay")
             => ( /\ ins[w] = 1
                  /\ Len(jobs') = Len(jobs)
                  /\ jobs'[id[w]].status = "completed" )]_vars
    /\ [][\A j \in Ids(jobs) :
             (jobs[j].status = "pending" /\ jobs'[j].status = "processing")
             => jobs[j].run_at <= NOW]_vars

\* C17, witness: the delay job is completed and its successor, whose run_at
\* has come, is claimed.
SuccessorOfDelayClaimed ==
    /\ Len(jobs) = 2
    /\ jobs[1].type = "delay"
    /\ jobs[1].status = "completed"
    /\ jobs[2].type = "http_request"
    /\ jobs[2].retry_count = 0
    /\ \E w \in Workers : pc[w] = "exec" /\ id[w] = 2

\* C18: the INSERTs of a cron_schedule job's handler add one row each, both
\* pending with run_at = nextRun, later than now: first the job of the
\* payload, then a cron_schedule job with the same payload (its callback_url
\* included); and the cron_schedule job is completed after exactly these
\* two INSERTs.
CronInsertsJobAndSuccessor ==
    /\ [][\A w \in Workers :
             (Inserting(w) /\ jobs[id[w]].type = "cron_schedule")
             => ( /\ Len(jobs') = Len(jobs) + 1
                  /\ jobs'[Len(jobs')].status = "pending"
                  /\ jobs'[Len(jobs')].retry_count = 0
                  /\ jobs'[Len(jobs')].run_at = nextRun[w]
                  /\ nextRun[w] > NOW
                  /\ ins[w] = 0 =>
                        jobs'[Len(jobs')].type = jobs[id[w]].payload.job.type
                  /\ ins[w] = 1 =>
                        /\ jobs'[Len(jobs')].type = "cron_schedule"
                        /\ jobs'[Len(jobs')].payload = jobs[id[w]].payload
                        /\ jobs'[Len(jobs')].cb = jobs[id[w]].cb
                  /\ ins[w] \in {0, 1} )]_vars
    /\ [][\A w \in Workers :
             (Completing(w) /\ jobs[id[w]].type = "cron_schedule")
             => ( /\ ins[w] = 2
                  /\ Len(jobs') = Len(jobs)
                  /\ jobs'[id[w]].status = "completed" )]_vars

\* A row in processing whose lease has expired.
Expired(row) ==
    row.status = "processing" /\ row.updated_at < NOW - processingTimeout

\* C20: when main starts the workers, no row is left in processing with an
\* expired lease.
NoExpiredLeaseAtStart ==
    [][(mpc = "boot" /\ mpc' # "boot") =>
          \A j \in Ids(jobs) : ~Expired(jobs'[j])]_vars

\* C19: once main has called cancel(), every worker and the recovery loop
\* eventually exit and main's wg.Wait() returns.
ShutdownCompletes ==
    (mpc = "stopping") ~>
        ( /\ mpc = "done"
          /\ spc = "exited"
          /\ \A w \in Workers : pc[w] = "exited" )

\* C19, witness: main is past wg.Wait() after a job was dispatched, every
\* worker and the recovery loop have exited.
DrainedAfterWork ==
    /\ mpc = "done"
    /\ spc = "exited"
    /\ \A w \in Workers : pc[w] = "exited"
    /\ \E j \in Ids(jobs) : log[j].calls > 0

\* C21: when handleRetry, having read retry_count = r, runs its UPDATE: if
\* r + 1 >= maxRetries the row is failed with retry_count r + 1 and run_at
\* as before; otherwise the row is pending with retry_count r + 1 and
\* run_at = NOW() + baseDelay * 2^r.
RetryPolicyOutcome ==
    [][\A w \in Workers :
          (pc[w] = "retryUpdate" /\ pc'[w] # "retryUpdate")
          => IF retryCount[w] + 1 >= maxRetries
             THEN /\ jobs'[id[w]].status = "failed"
                  /\ jobs'[id[w]].retry_count = retryCount[w] + 1
                  /\ jobs'[id[w]].run_at = jobs[id[w]].run_at
             ELSE /\ jobs'[id[w]].status = "pending"
                  /\ jobs'[id[w]].retry_count = retryCount[w] + 1
                  /\ jobs'[id[w]].run_at =
                        NOW + baseDelay * (2 ^ retryCount[w])]_vars

\* C22: in the runs in which every attempt, from its claim to the worker's
\* outcome UPDATE, is shorter than processingTimeout, the row of a worker
\* that has not yet written its outcome is in processing, a run of
\* recoverStuckJobs leaves that row as it is, and no job is held by two
\* workers at once.
NoReclaimWhileRunning ==
    /\ [](\A w \in Workers :
            InFlight(w) => jobs[id[w]].status = "processing")
    /\ [][SweeperStep =>
            \A w \in Workers :
                InFlight(w) => jobs'[id[w]] = jobs[id[w]]]_vars
    /\ [](\A w1, w2 \in Workers :
            (w1 # w2 /\ InFlight(w1) /\ InFlight(w2)) => id[w1] # id[w2])

\* C22, witness: an attempt has been running for one step of the clock less
\* than processingTimeout, through at least one tick of the recovery loop
\* (the ticker's period is shorter), no store statement has failed,
\* and the row is still in processing for its worker.
LongAttemptKeepsLease ==
    \E w \in Workers :
        /\ pc[w] = "exec"
        /\ log[id[w]].age = processingTimeout - Quantum
        /\ jobs[id[w]].status = "processing"
        /\ jobs[id[w]].updated_at = NOW - (processingTimeout - Quantum)
        /\ spc = "waiting"
        /\ ~tickReady
        /\ storeErrs = 0

\* C23: a tick of the recovery loop changes exactly the rows that are in
\* processing with updated_at < NOW() - processingTimeout, which become
\* pending, stamped now; every other row (pending, completed, failed, or
\* processing with a lease that has not expired) is left as it is.
SweepChangesExactlyExpired ==
    [][SweeperTick =>
         /\ Len(jobs') = Len(jobs)
         /\ \A j \in Ids(jobs) :
              IF Expired(jobs[j])
              THEN /\ jobs'[j] # jobs[j]
                   /\ jobs'[j] = [jobs[j] EXCEPT !.status = "pending",
                                                 !.updated_at = NOW]
              ELSE jobs'[j] = jobs[j]]_vars

\* C24: while handleRetry runs for a failed attempt, the row holds a
\* last_error, a response_status and an execution_time_ms; and every row in
\* failed has a last_error.
DiagnosticsBeforePolicy ==
    /\ \A w \in Workers :
          pc[w] \in {"retrySelect", "retryUpdate"} =>
              /\ jobs[id[w]].last_error # NULL
              /\ jobs[id[w]].response_status # NULLINT
              /\ jobs[id[w]].execution_time_ms # NULLINT
    /\ \A j \in Ids(jobs) :
          jobs[j].status = "failed" => jobs[j].last_error # NULL

\* Worker w is in handleRetry.
InRetry(w) == pc[w] \in {"retrySelect", "retryUpdate"}

\* A step in which worker w leaves handleRetry's decision: its failed
\* attempt is over.
PolicyDone(w) == InRetry(w) /\ ~InRetry(w)'

\* C25: retry_count counts the attempts whose handler returned
\* an error: it changes only when handleRetry ends a failed attempt, and
\* every failed attempt ends with retry_count one higher than before.
RetryCountCountsFailures ==
    /\ [][\A j \in Ids(jobs) :
             jobs'[j].retry_count # jobs[j].retry_count =>
                /\ jobs'[j].retry_count = jobs[j].retry_count + 1
                /\ \E w \in Workers : id[w] = j /\ PolicyDone(w)]_vars
    /\ [][\A w \in Workers :
             PolicyDone(w) =>
                jobs'[id[w]].retry_count = jobs[id[w]].retry_count + 1]_vars

\* C26: a worker exits only from the top of its loop, with no job in hand;
\* and once every worker has exited, no row for which a handler was invoked
\* is left in processing: each worker wrote the outcome of its job before
\* it exited.
NoExitBeforeOutcome ==
    /\ [][\A w \in Workers :
             (pc[w] # "exited" /\ pc'[w] = "exited") =>
                (pc[w] = "top" /\ id[w] = 0 /\ cancelled)]_vars
    /\ []( (\A w \in Workers : pc[w] = "exited")
           => \A j \in Ids(jobs) :
                 log[j].calls > 0 => jobs[j].status # "processing" )

\* C27: the step of processJob after a handler returned no error takes the
\* row from processing to completed with last_error NULL, the handler's
\* statusCode as response_status and retry_count as before, and goes on to
\* the callback, not to handleRetry.
SuccessCompletesJob ==
    [][\A w \in Workers :
          Completing(w)
          => ( /\ jobs[id[w]].status = "processing"
               /\ jobs'[id[w]].status = "completed"
               /\ jobs'[id[w]].last_error = NULL
               /\ jobs'[id[w]].response_status # NULLINT
               /\ jobs'[id[w]].retry_count = jobs[id[w]].retry_count )]_vars

\* C28: with fair scheduling, attempts that return and a store that fails
\* only finitely often, every job of the table eventually is completed or
\* failed, unless the process is shut down first.
EveryJobReachesTerminal ==
    \A j \in 1..MaxJobs :
        (Len(jobs) >= j) ~>
            (cancelled \/ (Len(jobs) >= j /\ jobs[j].status \in Terminal))

\* C29: every pending row has retry_count < maxRetries, so that the claim's
\* condition on retry_count excludes no pending row.
PendingIsClaimable ==
    \A j \in Ids(jobs) :
        jobs[j].status = "pending" => jobs[j].retry_count < maxRetries

\* C30: when processJob returns at its fetch error after a claim, the step
\* changes no row (no handler is invoked, no callback sent, the worker is
\* back at the top of its loop); and from then until the row is claimed again
\* its retry_count and last_error stay as they are and its status changes
\* only once, from processing to pending, in a run of recoverStuckJobs.
FetchErrorLeavesRow ==
    /\ [][\A w \in Workers :
             ( /\ pc[w] = "fetch" /\ pc'[w] # "fetch"
               /\ storeErrs' # storeErrs )
             => ( /\ pc'[w] = "top" /\ id'[w] = 0
                  /\ jobs' = jobs
                  /\ \A j \in Ids(jobs) :
                        /\ log'[j].calls = log[j].calls
                        /\ log'[j].posts = log[j].posts )]_vars
    /\ [][\A j \in Ids(jobs) :
             (log[j].orphan /\ log'[j].orphan) =>
                /\ jobs'[j].retry_count = jobs[j].retry_count
                /\ jobs'[j].last_error = jobs[j].last_error
                /\ jobs'[j].status # jobs[j].status =>
                      /\ jobs[j].status = "processing"
                      /\ jobs'[j].status = "pending"
                      /\ SweeperStep]_vars

\* C31: every callback POST that was sent carried the status completed or
\* failed, also when the outcome UPDATE before it failed.
CallbackCarriesTerminalStatus ==
    \A j \in Ids(jobs) : log[j].statuses \subseteq Terminal

\* The cron_schedule rows that are pending or processing.
LiveCronRows ==
    { j \in Ids(jobs) : /\ jobs[j].type = "cron_schedule"
                        /\ jobs[j].status \notin Terminal }

\* Row j is handed on: a worker that runs its handler has executed the
\* INSERT of its successor and has the completion UPDATE left to execute.
HandedOn(j) ==
    \E w \in Workers :
        pc[w] \in {"exec", "outcome"} /\ id[w] = j /\ ins[w] = 2

\* C32: of the cron_schedule rows descended from the one submitted
\* cron_schedule job, at most one is pending or processing, not counting a
\* row that is handed on to its successor.
CronChainNeverForks ==
    Cardinality({ j \in LiveCronRows : ~HandedOn(j) }) <= 1

\* C33: an attempt of a cron_schedule job whose handler returns an error
\* has inserted no row.
CronInsertsAllOrNothing ==
    [][\A w \in Workers :
          ( /\ pc[w] = "exec" /\ pc'[w] = "outcome"
            /\ res'[w].err # NULL
            /\ jobs[id[w]].type = "cron_schedule" )
          => ins[w] = 0]_vars

\* C34: once main has called cancel(), a worker at the top of its loop goes
\* nowhere but to its exit, so that the only claim a worker still issues is
\* the one it was already about to issue, and an exited worker stays exited;
\* and once the recovery loop has taken ctx.Done() it has exited and no run
\* of recoverStuckJobs follows.
CancelStopsClaimsAndTicks ==
    /\ [][\A w \in Workers :
             /\ (cancelled /\ pc[w] = "top" /\ pc'[w] # "top")
                   => pc'[w] = "exited"
             /\ pc[w] = "exited" => pc'[w] = "exited"]_vars
    /\ [][spc = "exited" =>
             ( /\ spc' = "exited"
               /\ nextTick' = nextTick
               /\ tickReady' = tickReady
               /\ ~SweeperStep )]_vars

\* C34, witness: after cancel() the recovery loop and one worker have
\* exited, and the other worker, which was past its check of ctx.Done(), is
\* in the handler of the job it claimed.
LastDispatchAfterCancel ==
    /\ mpc = "stopping"
    /\ spc = "exited"
    /\ \E w1, w2 \in Workers :
         /\ pc[w1] = "exited"
         /\ pc[w2] = "exec"
         /\ jobs[id[w2]].status = "processing"
         /\ log[id[w2]].calls = 1

====
